---- MODULE Spec2Model ----
(***************************************************************************)
(* A model of static/app.js of the resume builder: the job cards and the   *)
(* hidden jobs JSON field, the debounced /polish and /polish_cover         *)
(* requests with their suggestion boxes and auto-apply timers, and the     *)
(* preview swap.  The script runs on three kinds of page (resume builder,  *)
(* cover letter, result preview); a page holds the elements of its kind    *)
(* and every handler returns early when its elements are missing.          *)
(*                                                                         *)
(* A JavaScript string is a sequence of one-character strings.  A pending   *)
(* timer carries its delay and whether the delay has passed; delays pass   *)
(* in an order the delays and the creation order allow.                    *)
(***************************************************************************)
EXTENDS Integers, Sequences, FiniteSets, TLC

\* ------------------------------------------------------------------ bounds

\* Most requests of one endpoint that wait for their response at once.
MaxInFlight == 2

\* Most download submits whose overlay timer is pending at once.
MaxDownloads == 1

\* ------------------------------------------------------ program constants

MaxJobCards == 3
MaxBullets == 8
MaxJobs == 6
ResumePolishDelay == 380
ResumeAutoApplyDelay == 700
ClPolishDelay == 360
ClAutoApplyDelay == 650
SwapInsertDelay == 140
DownloadOverlayDelay == 240

\* ---------------------------------------------------------------- strings

EmptyStr == << >>

\* The characters String.prototype.trim removes that occur in the model.
WhiteSpace == {" ", "\n", "\t", "\r"}

Min2(a, b) == IF a <= b THEN a ELSE b

RECURSIVE TrimStart(_)
TrimStart(s) ==
  IF s = << >> THEN << >>
  ELSE IF Head(s) \in WhiteSpace THEN TrimStart(Tail(s)) ELSE s

RECURSIVE TrimEnd(_)
TrimEnd(s) ==
  IF s = << >> THEN << >>
  ELSE IF s[Len(s)] \in WhiteSpace THEN TrimEnd(SubSeq(s, 1, Len(s) - 1)) ELSE s

\* String.prototype.trim
trim(s) == TrimEnd(TrimStart(s))

\* String.prototype.split with a one-character separator: always at least
\* one piece, and a trailing separator gives a trailing empty piece.
RECURSIVE SplitFrom(_, _, _)
SplitFrom(s, sep, piece) ==
  IF s = << >> THEN << piece >>
  ELSE IF Head(s) = sep THEN << piece >> \o SplitFrom(Tail(s), sep, << >>)
  ELSE SplitFrom(Tail(s), sep, Append(piece, Head(s)))

split(s, sep) == SplitFrom(s, sep, << >>)

\* Array.prototype.join
RECURSIVE join(_, _)
join(items, sep) ==
  IF items = << >> THEN << >>
  ELSE IF Len(items) = 1 THEN items[1]
  ELSE items[1] \o sep \o join(Tail(items), sep)

\* Array.prototype.map
MapSeq(F(_), items) == [i \in 1..Len(items) |-> F(items[i])]

\* Array.prototype.slice(0, n)
slice0(items, n) == SubSeq(items, 1, Min2(n, Len(items)))

NonEmpty(s) == s # << >>

\* ------------------------------------------------------------ job entries

splitBulletsNoFilter(text) ==
  slice0(MapSeq(trim, split(text, "\n")), MaxBullets)

splitBulletsNoCap(text) ==
  SelectSeq(MapSeq(trim, split(text, "\n")), NonEmpty)

splitBullets(text) ==
  LET raw == SelectSeq(MapSeq(trim, split(text, "\n")), NonEmpty)
  IN slice0(raw, MaxBullets)

\* The test of lines 113 and 132: the five field values, concatenated and
\* trimmed, are not empty.
CardFilled(card) ==
  Len(trim(card.title \o card.company \o card.location \o card.dates
           \o card.bullets)) > 0

SyncEntry(card) ==
  [title |-> card.title, company |-> card.company,
   location |-> card.location, dates |-> card.dates,
   bullets |-> splitBullets(card.bullets)]

CollectEntry(card) ==
  [title |-> card.title, company |-> card.company,
   location |-> card.location, dates |-> card.dates,
   bullets_text |-> card.bullets]

\* The array syncJobsJson serialises into the hidden field.  The field's
\* value is kept as that array: JSON.stringify is a built-in, and it maps
\* different arrays of such objects to different texts.
JobsArray(cs) == slice0(MapSeq(SyncEntry, SelectSeq(cs, CardFilled)), MaxJobs)

collectJobs(cs) == slice0(MapSeq(CollectEntry, SelectSeq(cs, CardFilled)), MaxJobs)

\* ------------------------------------------------------------------ state

VARIABLES
  page,                 \* "resume", "cover" or "result": which elements exist
  cards,                \* the .job-card elements of jobsWrap, in document order
  jobsJsonField,        \* value of the hidden jobs_json field
  summaryEl,            \* value of #summary
  winsEl,               \* value of #wins
  skillsEl,             \* value of #skills
  autoApplyEl,          \* checked state of the resume auto-apply checkbox
  sugSummaryText,       \* textContent of #sugSummaryText
  sugSummaryBox,        \* TRUE when #sugSummaryBox is displayed
  sugWinsList,          \* the li texts of #sugWinsList
  sugWinsBox,
  sugSkillsText,
  sugSkillsBox,
  sugHint,
  sugSummaryApply,      \* onclick of the three Apply buttons
  sugWinsApply,
  sugSkillsApply,
  resumePolishTimer,    \* timer handles (0 is null)
  resumeAutoApplyTimer,
  polishInFlight,       \* POST /polish requests waiting for their response
  clLetter,             \* value of #cl_letter
  clAutoApply,          \* checked state of #clAutoApplyToggle
  clSugText,
  clSugBox,
  clSugApply,
  clPolishTimer,
  clAutoTimer,
  coverInFlight,        \* POST /polish_cover requests waiting
  templateSelect,       \* values of the three preview selectors
  fontSelect,
  pageLimitSelect,
  payloadForm,          \* hidden inputs of #swapPayload
  downloadForm,         \* hidden inputs of #downloadForm
  resultWrap,           \* innerHTML and data-font of #resultWrap
  dissolve,             \* TRUE when #dissolve has class "on"
  swapInFlight,         \* queries of the GET /swap requests waiting
  timers,               \* the pending setTimeout callbacks, in creation order
  burst,                \* tracked input events since the last debounced request
  served,               \* size of the burst the last debounced request closed
  inputSinceAuto,       \* an input event came while an auto-apply is pending
  lastOk,               \* body of the OK polish response handled last
  lastEvent             \* the response outcome or click this step handled

jobVars == << cards, jobsJsonField >>
fieldVars == << summaryEl, winsEl, skillsEl >>
sugVars == << sugSummaryText, sugSummaryBox, sugWinsList, sugWinsBox,
              sugSkillsText, sugSkillsBox, sugHint,
              sugSummaryApply, sugWinsApply, sugSkillsApply >>
coverSugVars == << clSugText, clSugBox, clSugApply >>
coverVars == << clLetter, clAutoApply, clSugText, clSugBox, clSugApply,
                clPolishTimer, clAutoTimer, coverInFlight >>
selectVars == << templateSelect, fontSelect, pageLimitSelect >>
swapVars == << templateSelect, fontSelect, pageLimitSelect, payloadForm,
               downloadForm, resultWrap, swapInFlight >>
resumeVars == << cards, jobsJsonField, summaryEl, winsEl, skillsEl, autoApplyEl,
                 sugSummaryText, sugSummaryBox, sugWinsList, sugWinsBox,
                 sugSkillsText, sugSkillsBox, sugHint,
                 sugSummaryApply, sugWinsApply, sugSkillsApply,
                 resumePolishTimer, resumeAutoApplyTimer, polishInFlight >>
ghostVars == << burst, served, inputSinceAuto, lastOk >>

vars == << page, cards, jobsJsonField, summaryEl, winsEl, skillsEl, autoApplyEl,
           sugSummaryText, sugSummaryBox, sugWinsList, sugWinsBox,
           sugSkillsText, sugSkillsBox, sugHint,
           sugSummaryApply, sugWinsApply, sugSkillsApply,
           resumePolishTimer, resumeAutoApplyTimer, polishInFlight,
           clLetter, clAutoApply, clSugText, clSugBox, clSugApply,
           clPolishTimer, clAutoTimer, coverInFlight,
           templateSelect, fontSelect, pageLimitSelect, payloadForm,
           downloadForm, resultWrap, dissolve, swapInFlight,
           timers, burst, served, inputSinceAuto, lastOk, lastEvent >>

\* syncJobsJson as it would be if it returned before writing the field.
syncJobsJsonSkipped(cs) == jobsJsonField

\* syncJobsJson, lines 96-119, with cs the cards of jobsWrap: the value the
\* hidden field gets.
syncJobsJson(cs) == JobsArray(cs)

\* ----------------------------------------------------------------- timers

Pending(kind) == Cardinality({i \in 1..Len(timers) : timers[i].kind = kind})

\* The id setTimeout returns.  A handle variable is the only holder of the
\* ids of its timers and is overwritten by each setTimeout, so the timers
\* of one handle share one id; a timer without a handle has id 0.
TimerId(kind) ==
  IF kind = "resumePolish" THEN 1
  ELSE IF kind = "resumeAuto" THEN 2
  ELSE IF kind = "clPolish" THEN 3
  ELSE IF kind = "clAuto" THEN 4
  ELSE 0

setTimeout(ts, kind, delay, arg) ==
  Append(ts, [id |-> TimerId(kind), kind |-> kind, delay |-> delay,
              due |-> FALSE, arg |-> arg])

clearTimeoutNoop(ts, handle) == ts

\* clearTimeout: a null handle (0) clears nothing.
clearTimeout(ts, handle) ==
  SelectSeq(ts, LAMBDA t : handle = 0 \/ t.id # handle)

\* The callback of timer i can run: its delay has passed.
CanFire(i) == timers[i].due

RemoveAt(s, i) == SubSeq(s, 1, i - 1) \o SubSeq(s, i + 1, Len(s))

\* ------------------------------------------------------------ input values

\* Largest burst size the burst counter tells apart.
MaxBurst == 2

\* "Led team\n\nGrew revenue 20%\n"
ExampleBullets ==
  << "L", "e", "d", " ", "t", "e", "a", "m", "\n", "\n",
     "G", "r", "e", "w", " ", "r", "e", "v", "e", "n", "u", "e", " ",
     "2", "0", "%", "\n" >>

LedTeam == << "L", "e", "d", " ", "t", "e", "a", "m" >>

GrewRevenue ==
  << "G", "r", "e", "w", " ", "r", "e", "v", "e", "n", "u", "e", " ",
     "2", "0", "%" >>

\* Ten lines, one of them blank and two padded: nine bullets before the cap.
TenLines ==
  << "1", "\n", " ", "2", " ", "\n", "\n", "3", "\n", "4", "\n", "5", "\n",
     "6", "\n", "\t", "7", "\n", "8", "\n", "9" >>

BulletTexts == {EmptyStr, ExampleBullets, TenLines}

\* A title is empty or nothing but white space: a card with such a title
\* and no bullets text has no content.
TitleTexts == {EmptyStr, << " ", "\t" >>}

CardFields == {"title", "company", "location", "dates", "bullets"}

\* The values an input event can leave in a field of a job card.
CardValues(f) ==
  IF f = "bullets" THEN BulletTexts
  ELSE IF f = "title" THEN TitleTexts
  ELSE {EmptyStr}

\* makeJobCard({}): every field empty, the remove and input listeners bound.
makeJobCard ==
  [title |-> EmptyStr, company |-> EmptyStr, location |-> EmptyStr,
   dates |-> EmptyStr, bullets |-> EmptyStr, script |-> TRUE]

\* A job card that came with the page's markup: no listener of the script.
PageCard ==
  [title |-> << "M", "g", "r" >>, company |-> << "C", "o" >>,
   location |-> EmptyStr, dates |-> EmptyStr, bullets |-> ExampleBullets,
   script |-> FALSE]

\* The job cards the page's markup can hold.
PageCards == {<< >>, << PageCard >>, << PageCard, PageCard, PageCard >>}

TrackedResumeFields ==
  {"summary", "wins", "skills", "strengths", "target_title", "years_experience"}

UserSummary == << "u" >>

\* The values an input event can leave in a tracked field.  The values of
\* strengths, target_title and years_experience are read by
\* collectResumePayload alone and are not kept.
ResumeValues(el) ==
  IF el = "summary" THEN {EmptyStr, UserSummary} ELSE {EmptyStr}

NoHandler == [set |-> FALSE, captured |-> << >>]

Handler(v) == [set |-> TRUE, captured |-> v]

TemplateVals == {"classic", "modern"}
FontVals == {"Georgia", "Inter"}
PageLimitVals == {"1", "2"}

Html0 == << "0" >>

\* ------------------------------------------------------------------- Init

\* The state when the DOMContentLoaded callback has returned.
InitCommon ==
  /\ summaryEl = EmptyStr /\ winsEl = EmptyStr /\ skillsEl = EmptyStr
  /\ autoApplyEl = FALSE
  /\ sugSummaryText = EmptyStr /\ sugSummaryBox = FALSE
  /\ sugWinsList = << >> /\ sugWinsBox = FALSE
  /\ sugSkillsText = EmptyStr /\ sugSkillsBox = FALSE
  /\ sugHint = EmptyStr
  /\ sugSummaryApply = NoHandler /\ sugWinsApply = NoHandler
  /\ sugSkillsApply = NoHandler
  /\ resumePolishTimer = 0 /\ resumeAutoApplyTimer = 0
  /\ clLetter = EmptyStr /\ clAutoApply = FALSE
  /\ clSugText = EmptyStr /\ clSugBox = FALSE /\ clSugApply = NoHandler
  /\ clPolishTimer = 0 /\ clAutoTimer = 0
  /\ templateSelect = "classic" /\ fontSelect = "Georgia"
  /\ pageLimitSelect = "1"
  /\ payloadForm = [template |-> "classic", font_family |-> "Georgia",
                    page_limit |-> "1"]
  /\ downloadForm = [template |-> "classic", font_family |-> "Georgia",
                     page_limit |-> "1"]
  /\ resultWrap = [html |-> Html0, dataFont |-> "Georgia"]
  /\ dissolve = FALSE
  /\ swapInFlight = << >>
  /\ timers = << >>
  /\ burst = 0 /\ served = 0 /\ inputSinceAuto = FALSE
  /\ lastOk = [set |-> FALSE]
  /\ lastEvent = "other"

\* Lines 193-205 and 328: a page without job cards gets one empty card and
\* a synced jobs field; the resume page sends its first /polish request.
InitResume(pageCards) ==
  /\ page = "resume"
  /\ cards = IF Len(pageCards) = 0 THEN << makeJobCard >> ELSE pageCards
  /\ jobsJsonField = JobsArray(pageCards)
  /\ polishInFlight = 1
  /\ coverInFlight = 0
  /\ InitCommon

\* Line 454: the cover page sends its first /polish_cover request.
InitCover ==
  /\ page = "cover"
  /\ cards = << >>
  /\ jobsJsonField = << >>
  /\ polishInFlight = 0
  /\ coverInFlight = 1
  /\ InitCommon

\* Line 524: the result page starts with the selector values mirrored.
InitResult ==
  /\ page = "result"
  /\ cards = << >>
  /\ jobsJsonField = << >>
  /\ polishInFlight = 0
  /\ coverInFlight = 0
  /\ InitCommon

\* ------------------------------------------------- resume page: job cards

Plain == lastEvent' = "other"

\* The ghost clocks of a tracked input event.
InputGhost ==
  /\ burst' = Min2(burst + 1, MaxBurst)
  /\ served' = 0
  /\ inputSinceAuto' =
       (inputSinceAuto \/ Pending("resumeAuto") > 0 \/ Pending("clAuto") > 0)
  /\ lastOk' = lastOk

\* requestResumePolishDebounced, lines 310-313.
requestResumePolishDebounced ==
  LET cleared == clearTimeout(timers, resumePolishTimer)
  IN /\ timers' = setTimeout(cleared, "resumePolish", ResumePolishDelay, EmptyStr)
     /\ resumePolishTimer' = TimerId("resumePolish")

\* requestResumePolish up to its fetch, lines 241-252: one more request
\* waits, unless the page has no resume element.
requestResumePolish ==
  polishInFlight' = IF page = "resume" THEN polishInFlight + 1 ELSE polishInFlight

\* An input event on field f of card i, lines 183-188.  The listener is
\* bound by makeJobCard: the user edits the cards the script made.
CardInput(i, f, v) ==
  /\ page = "resume"
  /\ i \in 1..Len(cards)
  /\ cards[i].script
  /\ cards' = [cards EXCEPT ![i][f] = v]
  /\ jobsJsonField' = syncJobsJson(cards')
  /\ requestResumePolishDebounced
  /\ InputGhost
  /\ Plain
  /\ UNCHANGED << page, fieldVars, autoApplyEl, sugVars, resumeAutoApplyTimer,
                  polishInFlight, coverVars, swapVars, dissolve >>

\* A click on the remove button of card i, lines 177-181.
RemoveClick(i) ==
  /\ page = "resume"
  /\ i \in 1..Len(cards)
  /\ cards[i].script
  /\ polishInFlight < MaxInFlight
  /\ cards' = RemoveAt(cards, i)
  /\ jobsJsonField' = syncJobsJson(cards')
  /\ requestResumePolish
  /\ Plain
  /\ UNCHANGED << page, fieldVars, autoApplyEl, sugVars, resumePolishTimer,
                  resumeAutoApplyTimer, coverVars, swapVars, dissolve, timers,
                  ghostVars >>

AddJobLimitOff(n) == FALSE

\* The early return of line 195.
AddJobLimit(n) == n >= MaxJobCards

\* A click on the add-job button, lines 194-199.
AddJobClick ==
  /\ page = "resume"
  /\ lastEvent' = "add_click"
  /\ IF AddJobLimit(Len(cards))
       THEN UNCHANGED << cards, jobsJsonField, polishInFlight >>
       ELSE /\ polishInFlight < MaxInFlight
            /\ cards' = Append(cards, makeJobCard)
            /\ jobsJsonField' = syncJobsJson(cards')
            /\ requestResumePolish
  /\ UNCHANGED << page, fieldVars, autoApplyEl, sugVars, resumePolishTimer,
                  resumeAutoApplyTimer, coverVars, swapVars, dissolve, timers,
                  ghostVars >>

\* The submit of the resume form, lines 208-211.  The browser then leaves
\* the page with the form's fields: its timers and its pending requests
\* end with the document.
ResumeSubmit ==
  /\ page = "resume"
  /\ jobsJsonField' = syncJobsJson(cards)
  /\ dissolve' = TRUE
  /\ page' = "unloaded"
  /\ Plain
  /\ timers' = << >>
  /\ polishInFlight' = 0
  /\ resumePolishTimer' = 0 /\ resumeAutoApplyTimer' = 0
  /\ burst' = 0 /\ served' = 0 /\ inputSinceAuto' = FALSE
  /\ lastOk' = [set |-> FALSE]
  /\ UNCHANGED << cards, fieldVars, autoApplyEl, sugVars, coverVars, swapVars >>

\* ---------------------------------------------------------------- the clock

\* The delay of timer i passes.  A timer created earlier with a delay no
\* longer is due no later, and the callback of a due timer runs before a
\* later delay passes (other events may run before it).
Elapse(i) ==
  /\ page # "unloaded"
  /\ i \in 1..Len(timers)
  /\ \A j \in 1..Len(timers) : ~timers[j].due
  /\ \A j \in 1..(i - 1) : timers[j].delay > timers[i].delay
  /\ timers' = [timers EXCEPT ![i].due = TRUE]
  /\ Plain
  /\ UNCHANGED << page, resumeVars, coverVars, swapVars, dissolve, ghostVars >>

\* ------------------------------------------------------- server responses

\* A member of a response's JSON: a string or undefined, an array or not.
Undefined == [defined |-> FALSE, val |-> << >>]
Str(v) == [defined |-> TRUE, val |-> v]
NotArray == [array |-> FALSE, items |-> << >>]
Arr(items) == [array |-> TRUE, items |-> items]

\* x || ""
OrEmpty(x) == IF x.defined /\ x.val # << >> THEN x.val ELSE EmptyStr

\* Array.isArray(x) ? x : []
ArrayOrEmpty(x) == IF x.array THEN x.items ELSE << >>

SummaryA == << "A" >>
SummaryB == << "B" >>
Wins2 == << << "w", "1" >>, << "w", "2" >> >>
Skills2 == << << "s", "1" >>, << "s", "2" >> >>
Hints2 == << << "h", "1" >>, << "h", "2" >> >>

\* Suggested bullets for the first job card, as jobs_suggestions[0].
JobSug1 == << << "j", "1" >>, << "j", "2" >> >>

NoData ==
  [polished_summary |-> Undefined, bullets |-> NotArray,
   skills_suggested |-> NotArray, metric_hints |-> NotArray,
   jobs_suggestions |-> NotArray]

\* The JSON bodies a successful /polish response can carry.
PolishData ==
  { NoData,
    [polished_summary |-> Str(<< " ", "A", "\n" >>), bullets |-> Arr(Wins2),
     skills_suggested |-> Arr(Skills2), metric_hints |-> Arr(Hints2),
     jobs_suggestions |-> NotArray],
    [polished_summary |-> Str(SummaryB), bullets |-> NotArray,
     skills_suggested |-> Arr(<< >>), metric_hints |-> Arr(<< >>),
     jobs_suggestions |-> NotArray],
    [polished_summary |-> Str(<< " " >>), bullets |-> Arr(Wins2),
     skills_suggested |-> Arr(Skills2), metric_hints |-> Arr(Hints2),
     jobs_suggestions |-> NotArray],
    [polished_summary |-> Str(SummaryB), bullets |-> NotArray,
     skills_suggested |-> Arr(<< >>), metric_hints |-> Arr(<< >>),
     jobs_suggestions |-> Arr(<< JobSug1 >>)] }

\* How a /polish request ends: fetch rejects, the status is not in 200-299
\* (with an empty JSON object as its body), res.json() rejects, or it succeeds.
PolishFailures ==
  { [status |-> "fetch_error", data |-> NoData],
    [status |-> "not_ok", data |-> NoData],
    [status |-> "parse_error", data |-> NoData] }

PolishResponses ==
  PolishFailures \cup { [status |-> "ok", data |-> d] : d \in PolishData }

LetterL == << "L" >>
LetterM == << "M" >>
UserLetter == << "u" >>

CoverData ==
  { [cover_letter_suggested |-> Undefined],
    [cover_letter_suggested |-> Str(<< " ", "L", " " >>)],
    [cover_letter_suggested |-> Str(LetterM)],
    [cover_letter_suggested |-> Str(<< "\n" >>)] }

CoverFailures ==
  { [status |-> "fetch_error", data |-> [cover_letter_suggested |-> Undefined]],
    [status |-> "not_ok", data |-> [cover_letter_suggested |-> Undefined]],
    [status |-> "parse_error", data |-> [cover_letter_suggested |-> Undefined]] }

CoverResponses ==
  CoverFailures \cup { [status |-> "ok", data |-> d] : d \in CoverData }

LandsUnlessThrown(r) == r.status \in {"ok", "not_ok"}

\* The response reaches the code after `if (!res.ok) return` and
\* `await res.json()`, lines 253-254 and 406-407; otherwise the function
\* returns or its catch block logs the error.
Lands(r) == r.status = "ok"

\* showBox, lines 13-16: the display the box gets.
showBox(on) == on

\* The onclick assignment as it would be if it were skipped for an empty
\* suggestion.
onclickUnlessEmpty(button, v) == IF v = << >> THEN button ELSE Handler(v)

\* The onclick of an Apply button after `button.onclick = () => ...` with v
\* the suggested value the closure holds, lines 284-304 and 420-425.
onclick(button, v) == Handler(v)

\* setList as it would be without the reset of line 20.
setListAppending(ul, items) == ul \o items

\* setList, lines 18-26: the li texts of ul after the call.
setList(ul, items) == items

\* ---------------------------------------------------- resume page: polish

\* autoApplyOn, lines 81-86.
autoApplyOn == page = "resume" /\ autoApplyEl

\* scheduleAutoApplySummary, lines 230-239.
scheduleAutoApplySummary(text) ==
  IF page = "resume" /\ autoApplyOn
    THEN LET cleared == clearTimeout(timers, resumeAutoApplyTimer)
         IN /\ timers' = setTimeout(cleared, "resumeAuto", ResumeAutoApplyDelay, text)
            /\ resumeAutoApplyTimer' = TimerId("resumeAuto")
            /\ inputSinceAuto' = FALSE
    ELSE UNCHANGED << timers, resumeAutoApplyTimer, inputSinceAuto >>

\* An input event on one of the six tracked fields, lines 316-325.
ResumeInput(el, v) ==
  /\ page = "resume"
  /\ summaryEl' = IF el = "summary" THEN v ELSE summaryEl
  /\ winsEl' = IF el = "wins" THEN v ELSE winsEl
  /\ skillsEl' = IF el = "skills" THEN v ELSE skillsEl
  /\ requestResumePolishDebounced
  /\ InputGhost
  /\ Plain
  /\ UNCHANGED << page, jobVars, autoApplyEl, sugVars, resumeAutoApplyTimer,
                  polishInFlight, coverVars, swapVars, dissolve >>

\* The user ticks or unticks the auto-apply checkbox; no listener is bound.
AutoApplyToggle ==
  /\ page = "resume"
  /\ autoApplyEl' = ~autoApplyEl
  /\ Plain
  /\ UNCHANGED << page, jobVars, fieldVars, sugVars, resumePolishTimer,
                  resumeAutoApplyTimer, polishInFlight, coverVars, swapVars,
                  dissolve, timers, ghostVars >>

\* The callback of resumePolishTimer runs: requestResumePolish.
FireResumePolish(i) ==
  /\ page = "resume"
  /\ i \in 1..Len(timers)
  /\ timers[i].kind = "resumePolish"
  /\ CanFire(i)
  /\ polishInFlight < MaxInFlight
  /\ timers' = RemoveAt(timers, i)
  /\ requestResumePolish
  /\ served' = burst
  /\ burst' = 0
  /\ Plain
  /\ UNCHANGED << page, jobVars, fieldVars, autoApplyEl, sugVars,
                  resumePolishTimer, resumeAutoApplyTimer, coverVars, swapVars,
                  dissolve, inputSinceAuto, lastOk >>

\* The callback of resumeAutoApplyTimer runs, lines 235-238.
FireResumeAutoApply(i) ==
  /\ page = "resume"
  /\ i \in 1..Len(timers)
  /\ timers[i].kind = "resumeAuto"
  /\ CanFire(i)
  /\ timers' = RemoveAt(timers, i)
  /\ summaryEl' = IF Len(trim(timers[i].arg)) = 0 THEN summaryEl ELSE timers[i].arg
  /\ inputSinceAuto' = FALSE
  /\ Plain
  /\ UNCHANGED << page, jobVars, winsEl, skillsEl, autoApplyEl, sugVars,
                  resumePolishTimer, resumeAutoApplyTimer, polishInFlight,
                  coverVars, swapVars, dissolve, burst, served, lastOk >>

\* A /polish request ends and the rest of requestResumePolish runs,
\* lines 253-307.
PolishRespond(r) ==
  /\ page = "resume"
  /\ polishInFlight > 0
  /\ polishInFlight' = polishInFlight - 1
  /\ lastOk' = IF r.status = "ok" THEN [set |-> TRUE, data |-> r.data]
               ELSE lastOk
  /\ lastEvent' = IF r.status # "ok" THEN "failed"
                  ELSE IF ArrayOrEmpty(r.data.jobs_suggestions) # << >>
                         THEN "job_sug"
                         ELSE "other"
  /\ IF Lands(r)
       THEN LET summarySuggested == trim(OrEmpty(r.data.polished_summary))
                bullets == ArrayOrEmpty(r.data.bullets)
                skillsSuggested ==
                  join(ArrayOrEmpty(r.data.skills_suggested), << ",", " " >>)
                hints == ArrayOrEmpty(r.data.metric_hints)
            IN /\ sugSummaryText' = summarySuggested
               /\ sugSummaryBox' = showBox(Len(summarySuggested) > 0)
               /\ sugWinsList' = setList(sugWinsList, bullets)
               /\ sugWinsBox' = showBox(Len(bullets) > 0)
               /\ sugSkillsText' = skillsSuggested
               /\ sugSkillsBox' = showBox(Len(trim(skillsSuggested)) > 0)
               /\ sugHint' = IF Len(hints) > 0 THEN hints[1] ELSE EmptyStr
               /\ IF summarySuggested # EmptyStr
                    THEN scheduleAutoApplySummary(summarySuggested)
                    ELSE UNCHANGED << timers, resumeAutoApplyTimer, inputSinceAuto >>
               /\ sugSummaryApply' = onclick(sugSummaryApply, summarySuggested)
               /\ sugWinsApply' = onclick(sugWinsApply, bullets)
               /\ sugSkillsApply' = onclick(sugSkillsApply, skillsSuggested)
       ELSE UNCHANGED << sugVars, timers, resumeAutoApplyTimer, inputSinceAuto >>
  /\ UNCHANGED << page, jobVars, fieldVars, autoApplyEl, resumePolishTimer,
                  coverVars, swapVars, dissolve, burst, served >>

\* The onclick handlers of the three Apply buttons, lines 285-304.
SugSummaryApplyClick ==
  /\ page = "resume"
  /\ sugSummaryApply.set
  /\ polishInFlight < MaxInFlight
  /\ summaryEl' = sugSummaryApply.captured
  /\ requestResumePolish
  /\ Plain
  /\ UNCHANGED << page, jobVars, winsEl, skillsEl, autoApplyEl, sugVars,
                  resumePolishTimer, resumeAutoApplyTimer, coverVars, swapVars,
                  dissolve, timers, ghostVars >>

SugWinsApplyClick ==
  /\ page = "resume"
  /\ sugWinsApply.set
  /\ polishInFlight < MaxInFlight
  /\ winsEl' = join(sugWinsApply.captured, << "\n" >>)
  /\ requestResumePolish
  /\ Plain
  /\ UNCHANGED << page, jobVars, summaryEl, skillsEl, autoApplyEl, sugVars,
                  resumePolishTimer, resumeAutoApplyTimer, coverVars, swapVars,
                  dissolve, timers, ghostVars >>

SugSkillsApplyClick ==
  /\ page = "resume"
  /\ sugSkillsApply.set
  /\ polishInFlight < MaxInFlight
  /\ skillsEl' = sugSkillsApply.captured
  /\ requestResumePolish
  /\ Plain
  /\ UNCHANGED << page, jobVars, summaryEl, winsEl, autoApplyEl, sugVars,
                  resumePolishTimer, resumeAutoApplyTimer, coverVars, swapVars,
                  dissolve, timers, ghostVars >>

\* ------------------------------------------------------ cover letter page

CoverFields ==
  {"cl_full_name", "cl_email", "cl_phone", "cl_company", "cl_manager",
   "cl_role", "cl_source", "cl_strengths", "cl_achievements", "cl_why",
   "cl_close", "cl_tone", "cl_letter"}

\* The values an input event can leave in a cover field.  Only the letter's
\* value is written by the script; the others are read by
\* collectCoverPayload alone and are not kept.
CoverValues(el) ==
  IF el = "cl_letter" THEN {EmptyStr, UserLetter} ELSE {EmptyStr}

\* clAutoOn, lines 354-357.
clAutoOn == page = "cover" /\ clAutoApply

\* scheduleClAutoApply, lines 384-393.
scheduleClAutoApply(text) ==
  IF page = "cover" /\ clAutoOn
    THEN LET cleared == clearTimeout(timers, clAutoTimer)
         IN /\ timers' = setTimeout(cleared, "clAuto", ClAutoApplyDelay, text)
            /\ clAutoTimer' = TimerId("clAuto")
            /\ inputSinceAuto' = FALSE
    ELSE UNCHANGED << timers, clAutoTimer, inputSinceAuto >>

\* requestCoverPolishDebounced, lines 431-434.
requestCoverPolishDebounced ==
  LET cleared == clearTimeout(timers, clPolishTimer)
  IN /\ timers' = setTimeout(cleared, "clPolish", ClPolishDelay, EmptyStr)
     /\ clPolishTimer' = TimerId("clPolish")

\* requestCoverPolish up to its fetch, lines 395-405.
requestCoverPolish ==
  coverInFlight' = IF page = "cover" THEN coverInFlight + 1 ELSE coverInFlight

\* An input event on a cover field, lines 437-447.
CoverInput(el, v) ==
  /\ page = "cover"
  /\ clLetter' = IF el = "cl_letter" THEN v ELSE clLetter
  /\ requestCoverPolishDebounced
  /\ InputGhost
  /\ Plain
  /\ UNCHANGED << page, resumeVars, clAutoApply, coverSugVars, clAutoTimer,
                  coverInFlight, swapVars, dissolve >>

\* The change event of the tone selector, line 446.
CoverToneChange ==
  /\ page = "cover"
  /\ requestCoverPolishDebounced
  /\ InputGhost
  /\ Plain
  /\ UNCHANGED << page, resumeVars, clLetter, clAutoApply, coverSugVars,
                  clAutoTimer, coverInFlight, swapVars, dissolve >>

\* The user ticks or unticks #clAutoApplyToggle; no listener is bound.
ClAutoApplyToggle ==
  /\ page = "cover"
  /\ clAutoApply' = ~clAutoApply
  /\ Plain
  /\ UNCHANGED << page, resumeVars, clLetter, coverSugVars, clPolishTimer,
                  clAutoTimer, coverInFlight, swapVars, dissolve, timers,
                  ghostVars >>

\* A click on #clPolishBtn, lines 449-451.
ClPolishClick ==
  /\ page = "cover"
  /\ coverInFlight < MaxInFlight
  /\ requestCoverPolish
  /\ Plain
  /\ UNCHANGED << page, resumeVars, clLetter, clAutoApply, coverSugVars,
                  clPolishTimer, clAutoTimer, swapVars, dissolve, timers,
                  ghostVars >>

\* The callback of clPolishTimer runs: requestCoverPolish.
FireClPolish(i) ==
  /\ page = "cover"
  /\ i \in 1..Len(timers)
  /\ timers[i].kind = "clPolish"
  /\ CanFire(i)
  /\ coverInFlight < MaxInFlight
  /\ timers' = RemoveAt(timers, i)
  /\ requestCoverPolish
  /\ served' = burst
  /\ burst' = 0
  /\ Plain
  /\ UNCHANGED << page, resumeVars, clLetter, clAutoApply, coverSugVars,
                  clPolishTimer, clAutoTimer, swapVars, dissolve, inputSinceAuto,
                  lastOk >>

\* The callback of clAutoTimer runs, lines 389-392.
FireClAutoApply(i) ==
  /\ page = "cover"
  /\ i \in 1..Len(timers)
  /\ timers[i].kind = "clAuto"
  /\ CanFire(i)
  /\ timers' = RemoveAt(timers, i)
  /\ clLetter' = IF Len(trim(timers[i].arg)) = 0 THEN clLetter ELSE timers[i].arg
  /\ inputSinceAuto' = FALSE
  /\ Plain
  /\ UNCHANGED << page, resumeVars, clAutoApply, coverSugVars, clPolishTimer,
                  clAutoTimer, coverInFlight, swapVars, dissolve, burst, served,
                  lastOk >>

\* A /polish_cover request ends and the rest of requestCoverPolish runs,
\* lines 406-428.
CoverRespond(r) ==
  /\ page = "cover"
  /\ coverInFlight > 0
  /\ coverInFlight' = coverInFlight - 1
  /\ lastOk' = IF r.status = "ok" THEN [set |-> TRUE, data |-> r.data]
               ELSE lastOk
  /\ lastEvent' = IF r.status = "ok" THEN "other" ELSE "failed"
  /\ IF Lands(r)
       THEN LET suggested == trim(OrEmpty(r.data.cover_letter_suggested))
            IN /\ clSugText' = suggested
               /\ clSugBox' = showBox(Len(suggested) > 0)
               /\ IF suggested # EmptyStr
                    THEN scheduleClAutoApply(suggested)
                    ELSE UNCHANGED << timers, clAutoTimer, inputSinceAuto >>
               /\ clSugApply' = onclick(clSugApply, suggested)
       ELSE UNCHANGED << coverSugVars, timers, clAutoTimer, inputSinceAuto >>
  /\ UNCHANGED << page, resumeVars, clLetter, clAutoApply, clPolishTimer,
                  swapVars, dissolve, burst, served >>

\* The onclick handler of #clSugApply, lines 420-425.
ClSugApplyClick ==
  /\ page = "cover"
  /\ clSugApply.set
  /\ coverInFlight < MaxInFlight
  /\ clLetter' = clSugApply.captured
  /\ requestCoverPolish
  /\ Plain
  /\ UNCHANGED << page, resumeVars, clAutoApply, coverSugVars, clPolishTimer,
                  clAutoTimer, swapVars, dissolve, timers, ghostVars >>

\* ------------------------------------------------------------ result page

Truthy(s) == s # ""

\* setHidden, lines 28-32, on one hidden input of a form.
setHidden(form, name, value) == [form EXCEPT ![name] = value]

MirrorIntoSkipFont(form, tpl, font, pages) ==
  LET f1 == IF Truthy(tpl) THEN setHidden(form, "template", tpl) ELSE form
  IN IF Truthy(pages) THEN setHidden(f1, "page_limit", pages) ELSE f1

\* The hidden inputs of a form after syncPreviewSettingsIntoForms,
\* lines 473-485.
MirrorInto(form, tpl, font, pages) ==
  LET f1 == IF Truthy(tpl) THEN setHidden(form, "template", tpl) ELSE form
      f2 == IF Truthy(font) THEN setHidden(f1, "font_family", font) ELSE f1
  IN IF Truthy(pages) THEN setHidden(f2, "page_limit", pages) ELSE f2

\* syncPreviewSettingsIntoForms, lines 468-486, with the selectors holding
\* tpl, font and pages.
syncPreviewSettingsIntoForms(tpl, font, pages) ==
  /\ payloadForm' = MirrorInto(payloadForm, tpl, font, pages)
  /\ downloadForm' = MirrorInto(downloadForm, tpl, font, pages)
  /\ resultWrap' = IF Truthy(font) THEN [resultWrap EXCEPT !.dataFont = font]
                   ELSE resultWrap

\* Swap cycles that have not ended: requests waiting and inserts pending.
SwapCycles == Len(swapInFlight) + Pending("swapInsert")

\* doSwap as it would be if a new request aborted the ones waiting.
doSwapCancelling(tpl, font, pages) ==
  /\ SwapCycles < MaxInFlight
  /\ syncPreviewSettingsIntoForms(tpl, font, pages)
  /\ dissolve' = TRUE
  /\ swapInFlight' = << payloadForm' >>

\* doSwap up to its fetch, lines 488-498: the query is the payload form's
\* fields after the mirroring.
doSwap(tpl, font, pages) ==
  /\ SwapCycles < MaxInFlight
  /\ syncPreviewSettingsIntoForms(tpl, font, pages)
  /\ dissolve' = TRUE
  /\ swapInFlight' = Append(swapInFlight, payloadForm')

\* A change event of the template selector, line 512.
TemplateChange(v) ==
  /\ page = "result"
  /\ v # templateSelect
  /\ templateSelect' = v
  /\ doSwap(v, fontSelect, pageLimitSelect)
  /\ Plain
  /\ UNCHANGED << page, resumeVars, coverVars, fontSelect, pageLimitSelect,
                  timers, ghostVars >>

\* A change event of the font selector, line 513.
FontChange(v) ==
  /\ page = "result"
  /\ v # fontSelect
  /\ fontSelect' = v
  /\ doSwap(templateSelect, v, pageLimitSelect)
  /\ Plain
  /\ UNCHANGED << page, resumeVars, coverVars, templateSelect, pageLimitSelect,
                  timers, ghostVars >>

\* A change event of the page-limit selector, line 514.
PageLimitChange(v) ==
  /\ page = "result"
  /\ v # pageLimitSelect
  /\ pageLimitSelect' = v
  /\ syncPreviewSettingsIntoForms(templateSelect, fontSelect, v)
  /\ Plain
  /\ UNCHANGED << page, resumeVars, coverVars, templateSelect, fontSelect,
                  swapInFlight, dissolve, timers, ghostVars >>

Html1 == << "1" >>
Html2 == << "2" >>

\* How a /swap request ends: fetch rejects, a status outside 200-299, or
\* an OK response with its markup.
SwapResponses ==
  { [status |-> "fetch_error", html |-> EmptyStr],
    [status |-> "not_ok", html |-> EmptyStr],
    [status |-> "ok", html |-> Html1],
    [status |-> "ok", html |-> Html2] }

\* Request i ends and the rest of doSwap runs, lines 499-509.
SwapRespond(i, r) ==
  /\ page = "result"
  /\ i \in 1..Len(swapInFlight)
  /\ swapInFlight' = RemoveAt(swapInFlight, i)
  /\ lastEvent' = IF r.status = "ok" THEN "other" ELSE r.status
  /\ IF r.status = "ok"
       THEN /\ timers' = setTimeout(timers, "swapInsert", SwapInsertDelay, r.html)
            /\ UNCHANGED dissolve
       ELSE IF r.status = "not_ok"
         THEN UNCHANGED << timers, dissolve >>
         ELSE /\ dissolve' = FALSE
              /\ UNCHANGED timers
  /\ UNCHANGED << page, resumeVars, coverVars, selectVars, payloadForm,
                  downloadForm, resultWrap, ghostVars >>

\* The callback of lines 502-505 runs.
FireSwapInsert(i) ==
  /\ page = "result"
  /\ i \in 1..Len(timers)
  /\ timers[i].kind = "swapInsert"
  /\ CanFire(i)
  /\ timers' = RemoveAt(timers, i)
  /\ resultWrap' = [resultWrap EXCEPT !.html = timers[i].arg]
  /\ dissolve' = FALSE
  /\ Plain
  /\ UNCHANGED << page, resumeVars, coverVars, selectVars, payloadForm,
                  downloadForm, swapInFlight, ghostVars >>

\* The submit of the download form, lines 517-521.
DownloadSubmit ==
  /\ page = "result"
  /\ Pending("downloadOff") < MaxDownloads
  /\ syncPreviewSettingsIntoForms(templateSelect, fontSelect, pageLimitSelect)
  /\ dissolve' = TRUE
  /\ timers' = setTimeout(timers, "downloadOff", DownloadOverlayDelay, EmptyStr)
  /\ Plain
  /\ UNCHANGED << page, resumeVars, coverVars, selectVars, swapInFlight,
                  ghostVars >>

\* The callback of line 520 runs.
FireDownloadOff(i) ==
  /\ page = "result"
  /\ i \in 1..Len(timers)
  /\ timers[i].kind = "downloadOff"
  /\ CanFire(i)
  /\ timers' = RemoveAt(timers, i)
  /\ dissolve' = FALSE
  /\ Plain
  /\ UNCHANGED << page, resumeVars, coverVars, swapVars, ghostVars >>

\* --------------------------------------------------------- specifications

\* The resume page with its job cards; every /polish request ends with an
\* error status.
JobsResponses == PolishFailures

InitJobs == \E pc \in PageCards : InitResume(pc)

NextJobs ==
  \/ \E i \in 1..MaxJobCards, f \in CardFields : \E v \in CardValues(f) :
       CardInput(i, f, v)
  \/ \E i \in 1..MaxJobCards : RemoveClick(i)
  \/ AddJobClick
  \/ ResumeSubmit
  \/ \E i \in 1..Len(timers) : FireResumePolish(i)
  \/ \E r \in JobsResponses : PolishRespond(r)
  \/ \E i \in 1..Len(timers) : Elapse(i)

SpecJobs == InitJobs /\ [][NextJobs]_vars

\* The resume page and the cover page: polish requests, suggestions and
\* auto-apply.
InitPolish == InitResume(<< >>) \/ InitCover

NextPolish ==
  \/ \E el \in TrackedResumeFields : \E v \in ResumeValues(el) : ResumeInput(el, v)
  \/ AutoApplyToggle
  \/ \E i \in 1..Len(timers) : FireResumePolish(i)
  \/ \E i \in 1..Len(timers) : FireResumeAutoApply(i)
  \/ \E r \in PolishResponses : PolishRespond(r)
  \/ SugSummaryApplyClick
  \/ SugWinsApplyClick
  \/ SugSkillsApplyClick
  \/ \E el \in CoverFields : \E v \in CoverValues(el) : CoverInput(el, v)
  \/ CoverToneChange
  \/ ClAutoApplyToggle
  \/ ClPolishClick
  \/ \E i \in 1..Len(timers) : FireClPolish(i)
  \/ \E i \in 1..Len(timers) : FireClAutoApply(i)
  \/ \E r \in CoverResponses : CoverRespond(r)
  \/ ClSugApplyClick
  \/ \E i \in 1..Len(timers) : Elapse(i)

SpecPolish == InitPolish /\ [][NextPolish]_vars

\* The result page: the preview swap and the download form.
InitSwap == InitResult

NextSwap ==
  \/ \E v \in TemplateVals : TemplateChange(v)
  \/ \E v \in FontVals : FontChange(v)
  \/ \E v \in PageLimitVals : PageLimitChange(v)
  \/ \E i \in 1..Len(swapInFlight) : \E r \in SwapResponses : SwapRespond(i, r)
  \/ \E i \in 1..Len(timers) : FireSwapInsert(i)
  \/ DownloadSubmit
  \/ \E i \in 1..Len(timers) : FireDownloadOff(i)
  \/ \E i \in 1..Len(timers) : Elapse(i)

SpecSwap == InitSwap /\ [][NextSwap]_vars

\* ------------------------------------------------------------ page reload

\* The user reloads the resume page or the cover page.  The old document
\* goes with its timers and its pending responses; the script runs again on
\* the new document, as in Init.  The script writes no storage and reads
\* none: the checkboxes of lines 78-79 and 353 are read from the new
\* document, where a checkbox is unchecked as at the first load, or, in a
\* browser that restores form controls on reload, checked as it was.
Reload ==
  /\ page \in {"resume", "cover"}
  /\ page' = page
  /\ cards' = IF page = "resume" THEN << makeJobCard >> ELSE << >>
  /\ jobsJsonField' = << >>
  /\ polishInFlight' = IF page = "resume" THEN 1 ELSE 0
  /\ coverInFlight' = IF page = "cover" THEN 1 ELSE 0
  /\ summaryEl' = EmptyStr /\ winsEl' = EmptyStr /\ skillsEl' = EmptyStr
  /\ autoApplyEl' \in {FALSE, autoApplyEl}
  /\ sugSummaryText' = EmptyStr /\ sugSummaryBox' = FALSE
  /\ sugWinsList' = << >> /\ sugWinsBox' = FALSE
  /\ sugSkillsText' = EmptyStr /\ sugSkillsBox' = FALSE
  /\ sugHint' = EmptyStr
  /\ sugSummaryApply' = NoHandler /\ sugWinsApply' = NoHandler
  /\ sugSkillsApply' = NoHandler
  /\ resumePolishTimer' = 0 /\ resumeAutoApplyTimer' = 0
  /\ clLetter' = EmptyStr /\ clAutoApply' \in {FALSE, clAutoApply}
  /\ clSugText' = EmptyStr /\ clSugBox' = FALSE /\ clSugApply' = NoHandler
  /\ clPolishTimer' = 0 /\ clAutoTimer' = 0
  /\ dissolve' = FALSE
  /\ timers' = << >>
  /\ burst' = 0 /\ served' = 0 /\ inputSinceAuto' = FALSE
  /\ lastOk' = [set |-> FALSE]
  /\ lastEvent' = "reload"
  /\ UNCHANGED swapVars

\* The resume page and the cover page with reloads.
InitReload == InitPolish

NextReload ==
  \/ NextPolish
  \/ Reload

SpecReload == InitReload /\ [][NextReload]_vars

\* ================================================================= claims

\* The debounce timer kind and the request count of the page's polish flow.
DebounceKind == IF page = "cover" THEN "clPolish" ELSE "resumePolish"

DebounceInFlight == IF page = "cover" THEN coverInFlight ELSE polishInFlight

DebounceTimerRan ==
  \E i \in 1..Len(timers) :
    /\ timers[i].kind = DebounceKind
    /\ timers[i].due
    /\ timers' = RemoveAt(timers, i)

\* C1: debounce.  While a burst of N >= 1 input events on tracked resume
\* fields (or cover fields) is open, exactly one debounce timer is pending
\* for it, and none otherwise; a debounce timer goes away only by running,
\* which happens after its delay has passed since the last event of the
\* burst, issues exactly one polish request and closes the burst.
C1_DebounceOneRequest ==
  /\ [](Pending(DebounceKind) = IF burst > 0 THEN 1 ELSE 0)
  /\ [][ /\ burst' > burst =>
              \A i \in 1..Len(timers') :
                timers'[i].kind = DebounceKind => ~timers'[i].due
         /\ Pending(DebounceKind)' < Pending(DebounceKind) =>
              /\ burst > 0
              /\ DebounceTimerRan
              /\ DebounceInFlight' = DebounceInFlight + 1
              /\ burst' = 0
              /\ Pending(DebounceKind)' = 0 ]_vars

\* C1 witness: a request has just closed a burst of at least two events.
C1_Witness ==
  /\ page = "resume"
  /\ served = MaxBurst
  /\ burst = 0
  /\ polishInFlight >= 1
  /\ Pending("resumePolish") = 0

AutoTimerRan(kind) ==
  \E i \in 1..Len(timers) :
    /\ timers[i].kind = kind
    /\ timers' = RemoveAt(timers, i)

\* C2: an auto-apply timer that runs writes the summary field (the cover
\* letter field) only when the corresponding toggle is on at that moment.
C2_AutoApplyObeysToggle ==
  [][ /\ (AutoTimerRan("resumeAuto") /\ summaryEl' # summaryEl) => autoApplyEl
      /\ (AutoTimerRan("clAuto") /\ clLetter' # clLetter) => clAutoApply ]_vars

\* C3: an auto-apply timer that runs writes the suggested text only if the
\* text is not empty after trimming and no input event came between the
\* scheduling of the auto-apply and the end of its delay.
C3_InputCancelsAutoApply ==
  [][ /\ (AutoTimerRan("resumeAuto") /\ summaryEl' # summaryEl) =>
           (Len(trim(summaryEl')) > 0 /\ ~inputSinceAuto)
      /\ (AutoTimerRan("clAuto") /\ clLetter' # clLetter) =>
           (Len(trim(clLetter')) > 0 /\ ~inputSinceAuto) ]_vars

\* C4: when a /swap request ends with a non-OK response and no other swap
\* cycle or download overlay is under way, the result container is
\* unchanged and the overlay is off.
C4_SwapFailureClearsOverlay ==
  [][ (lastEvent' = "not_ok" /\ SwapCycles' = 0 /\ Pending("downloadOff") = 0) =>
        (resultWrap' = resultWrap /\ ~dissolve') ]_vars

\* ---- what the claims about job entries call a line and a card with content

\* s without its leading and trailing white space, by positions.
Strip(s) ==
  LET inked == {i \in 1..Len(s) : s[i] \notin WhiteSpace}
  IN IF inked = {} THEN << >>
     ELSE LET first == CHOOSE i \in inked : \A j \in inked : i <= j
              last == CHOOSE i \in inked : \A j \in inked : j <= i
          IN SubSeq(s, first, last)

\* The positions that end a line of text: its newlines and its end.
LineEnds(text) == {i \in 1..Len(text) : text[i] = "\n"} \cup {Len(text) + 1}

\* The lines of text after position from, stripped, blank ones left out.
RECURSIVE LinesAfter(_, _)
LinesAfter(text, from) ==
  IF from > Len(text) THEN << >>
  ELSE LET ends == {e \in LineEnds(text) : e > from}
           end == CHOOSE e \in ends : \A f \in ends : e <= f
           line == Strip(SubSeq(text, from + 1, end - 1))
       IN (IF line = << >> THEN << >> ELSE << line >>) \o LinesAfter(text, end)

BulletLines(text) == LinesAfter(text, 0)

FirstN(items, n) == [i \in 1..(IF Len(items) < n THEN Len(items) ELSE n) |-> items[i]]

HasNonEmptyField(card) ==
  \/ card.title # << >> \/ card.company # << >> \/ card.location # << >>
  \/ card.dates # << >> \/ card.bullets # << >>

\* The cards that have content: some character of some field is not white
\* space.
HasContent(card) ==
  \E f \in {"title", "company", "location", "dates", "bullets"} :
    \E i \in 1..Len(card[f]) : card[f][i] \notin WhiteSpace

\* entries are, in order, entries for some of the cards cs, each for a card
\* with a non-empty field.
RECURSIVE EntriesOfCards(_, _)
EntriesOfCards(entries, cs) ==
  IF entries = << >> THEN TRUE
  ELSE IF cs = << >> THEN FALSE
  ELSE \/ /\ HasNonEmptyField(Head(cs))
          /\ Head(entries).title = Head(cs).title
          /\ Head(entries).company = Head(cs).company
          /\ Head(entries).location = Head(cs).location
          /\ Head(entries).dates = Head(cs).dates
          /\ EntriesOfCards(Tail(entries), Tail(cs))
       \/ EntriesOfCards(entries, Tail(cs))

\* C5: for the 0 to 3 job cards of the page, the hidden field holds at most
\* 6 entries, in card order, each for a card with at least one non-empty
\* field; an entry's bullets are at most 8, each non-empty after trimming.
C5_JobsJsonShape ==
  /\ Len(cards) \in 0..3
  /\ Len(jobsJsonField) <= 6
  /\ EntriesOfCards(jobsJsonField, cards)
  /\ \A k \in 1..Len(jobsJsonField) :
       /\ Len(jobsJsonField[k].bullets) <= 8
       /\ \A b \in 1..Len(jobsJsonField[k].bullets) :
            Strip(jobsJsonField[k].bullets[b]) # << >>

\* C5 witness: three cards, one of them without content, and an entry whose
\* bullets were cut to 8.
C5_Witness ==
  /\ Len(cards) = 3
  /\ Len(jobsJsonField) = 2
  /\ \E i \in 1..3 : cards[i].bullets = TenLines
  /\ \E i \in 1..3 : cards[i].title # << >> /\ cards[i].bullets = << >>
  /\ \E k \in 1..2 : Len(jobsJsonField[k].bullets) = 8

\* The cards with content, in order, and the bullets text of the k-th.
ContentCards == SelectSeq(cards, HasContent)

Displays ==
  << sugSummaryText, sugSummaryBox, sugWinsList, sugWinsBox, sugSkillsText,
     sugSkillsBox, sugHint, clSugText, clSugBox >>

ApplyHandlers == << sugSummaryApply, sugWinsApply, sugSkillsApply, clSugApply >>

FormFields == << summaryEl, winsEl, skillsEl, clLetter, cards, jobsJsonField >>

AllBoxesHidden ==
  ~sugSummaryBox /\ ~sugWinsBox /\ ~sugSkillsBox /\ ~clSugBox

\* C7: when a /polish or /polish_cover request ends with an error status, a
\* rejected fetch or a JSON parse error, no request is issued and no timer
\* is set or cleared, and the suggestion displays, the Apply handlers and
\* the form fields are as they were.
C7_FailureChangesNothing ==
  [][ lastEvent' = "failed" =>
        /\ polishInFlight' = polishInFlight - (IF page = "resume" THEN 1 ELSE 0)
        /\ coverInFlight' = coverInFlight - (IF page = "cover" THEN 1 ELSE 0)
        /\ timers' = timers
        /\ Displays' = Displays
        /\ ApplyHandlers' = ApplyHandlers
        /\ FormFields' = FormFields ]_vars

\* C7 witness: a request has just failed while an auto-apply of an earlier
\* suggestion is pending.
C7_Witness ==
  /\ lastEvent = "failed"
  /\ sugSummaryApply.set
  /\ Pending("resumeAuto") = 1

\* C8 as claimed: once a polish request has failed, every suggestion box is
\* hidden.
C8_FailureHidesBoxes ==
  [][ lastEvent' = "failed" => AllBoxesHidden' ]_vars

\* C8 amended: a failed polish request shows no new suggestion: every box
\* is displayed or hidden as before, with the content it had; the boxes are
\* all hidden as long as no response has succeeded.
C8_FailureShowsNothingNew ==
  /\ [][ lastEvent' = "failed" => Displays' = Displays ]_vars
  /\ []( (~sugSummaryApply.set /\ ~clSugApply.set) => AllBoxesHidden )

\* C8 witness: a request has just failed and the suggestions of an earlier
\* response are still displayed.
C8_Witness ==
  /\ lastEvent = "failed"
  /\ sugSummaryBox /\ sugWinsBox /\ sugSkillsBox

\* C9: a page-limit change mirrors the selectors into the hidden fields of
\* both forms and does nothing else: no /swap request, no change of the
\* overlay, of the result container or of the timers.  A template or font
\* change mirrors the selectors into both forms and then issues exactly one
\* GET /swap whose query is the live-preview form's fields, so it carries
\* the selected template and font.
C9_PageLimitNoSwap ==
  [][ /\ pageLimitSelect' # pageLimitSelect =>
           /\ swapInFlight' = swapInFlight
           /\ dissolve' = dissolve
           /\ resultWrap' = resultWrap
           /\ timers' = timers
           /\ payloadForm' = [payloadForm EXCEPT !.page_limit = pageLimitSelect']
           /\ downloadForm' = [downloadForm EXCEPT !.page_limit = pageLimitSelect']
      /\ (templateSelect' # templateSelect \/ fontSelect' # fontSelect) =>
           /\ payloadForm'.template = templateSelect'
           /\ payloadForm'.font_family = fontSelect'
           /\ downloadForm'.template = templateSelect'
           /\ downloadForm'.font_family = fontSelect'
           /\ swapInFlight' = Append(swapInFlight, payloadForm')
           /\ swapInFlight'[Len(swapInFlight')].template = templateSelect'
           /\ swapInFlight'[Len(swapInFlight')].font_family = fontSelect' ]_vars

\* C9 witness: after a page-limit change with nothing else under way, a
\* request for font "Inter" and template "modern" is waiting.
C9_Witness ==
  /\ Len(swapInFlight) = 1
  /\ swapInFlight[1] =
       [template |-> "modern", font_family |-> "Inter", page_limit |-> "2"]
  /\ resultWrap.html = Html0

\* C10: from a page with at most 3 job cards, the number of job cards stays
\* at most 3, and an add click with 3 cards present changes no card, does
\* not rewrite the jobs field, and issues no request and sets no timer.
C10_AtMostThreeCards ==
  /\ [](Len(cards) <= 3)
  /\ [][ (lastEvent' = "add_click" /\ Len(cards) = 3) =>
           /\ cards' = cards
           /\ jobsJsonField' = jobsJsonField
           /\ polishInFlight' = polishInFlight
           /\ timers' = timers ]_vars

\* C10 witness: an add click has just been ignored with 3 cards present (an
\* add that adds a card leaves a request waiting).
C10_Witness ==
  /\ lastEvent = "add_click"
  /\ Len(cards) = 3
  /\ \E i \in 1..3 : cards[i].script
  /\ polishInFlight = 0

\* C11: the auto-apply preference of each feature survives a reload: after
\* a reload each toggle has the value the user last set, and is off when
\* the user never set it.  The toggles are off at the first load and only
\* the user changes them, so that value is the one the toggle has when the
\* page is reloaded.
C11_PreferenceSurvivesReload ==
  [][ lastEvent' = "reload" =>
        (autoApplyEl' = autoApplyEl /\ clAutoApply' = clAutoApply) ]_vars

\* The clicks the resume page handles: the three Apply buttons, the add-job
\* button and the Remove button of each card.
PageClicks ==
  \/ SugSummaryApplyClick
  \/ SugWinsApplyClick
  \/ SugSkillsApplyClick
  \/ AddJobClick
  \/ \E i \in 1..Len(cards) : RemoveClick(i)

\* C12: when a /polish response has brought bullet suggestions for the
\* first job card, the user can apply them: some click replaces the bullets
\* text of that card and of no other, the jobs field is synced again and a
\* fresh polish request is issued.
C12_JobSuggestionApplies ==
  lastEvent = "job_sug" =>
    ENABLED ( /\ PageClicks
              /\ Len(cards') = Len(cards)
              /\ cards'[1].bullets # cards[1].bullets
              /\ \A k \in 2..Len(cards) : cards'[k] = cards[k]
              /\ jobsJsonField' = JobsArray(cards')
              /\ polishInFlight' = polishInFlight + 1 )

\* C13: the overlay protocol of the swap cycles.  While a /swap request is
\* waiting for its response the overlay is on, also when two cycles
\* overlap; and while a swap cycle is under way the overlay is turned off
\* only by the step that inserts new markup or by the step that handles a
\* failed request.
C13_SwapOverlayProtocol ==
  /\ [](Len(swapInFlight) > 0 => dissolve)
  /\ [][ (SwapCycles > 0 /\ dissolve /\ ~dissolve') =>
           \/ resultWrap'.html # resultWrap.html
           \/ Pending("swapInsert")' < Pending("swapInsert")
           \/ lastEvent' \in {"not_ok", "fetch_error"} ]_vars

\* C14: overlapping swaps.  A template or font change while a /swap request
\* is waiting leaves that request and the pending inserts as they are; an
\* OK response sets its insert timer behind the ones already pending; and
\* the insert timer that runs is the oldest one pending and writes its
\* markup into the container.  So the markup is inserted in the order the
\* responses arrived, and once both are processed the container holds the
\* markup of the response that arrived last, whichever request it answers.
C14_LastArrivalWins ==
  [][ /\ (templateSelect' # templateSelect \/ fontSelect' # fontSelect) =>
           /\ Len(swapInFlight') = Len(swapInFlight) + 1
           /\ SubSeq(swapInFlight', 1, Len(swapInFlight)) = swapInFlight
           /\ timers' = timers
      /\ (Len(swapInFlight') < Len(swapInFlight) /\ lastEvent' = "other") =>
           /\ Len(timers') = Len(timers) + 1
           /\ SubSeq(timers', 1, Len(timers)) = timers
           /\ timers'[Len(timers')].kind = "swapInsert"
           /\ resultWrap' = resultWrap
      /\ \A i \in 1..Len(timers) :
           ( /\ timers[i].kind = "swapInsert"
             /\ timers[i].due
             /\ timers' = RemoveAt(timers, i) ) =>
               /\ \A j \in 1..(i - 1) : timers[j].kind # "swapInsert"
               /\ resultWrap'.html = timers[i].arg ]_vars

\* C14 witness: the response to the later request has arrived and its
\* markup is waiting to be inserted, the earlier
\* request (its query is not what the selectors show any more) is still
\* waiting.
C14_Witness ==
  /\ Len(swapInFlight) = 1
  /\ \/ swapInFlight[1].template # templateSelect
     \/ swapInFlight[1].font_family # fontSelect
  /\ Pending("swapInsert") = 1
  /\ \E i \in 1..Len(timers) :
       timers[i].kind = "swapInsert" /\ timers[i].arg = Html1

\* ---- the suggestions of a response, as the claims speak of them

\* A string member of a body, stripped; empty when the member is missing.
TextOf(x) == IF x.defined THEN Strip(x.val) ELSE << >>

\* An array member of a body; empty when it is missing or no array.
ListOf(x) == IF x.array THEN x.items ELSE << >>

\* The items of a list with ", " between them.
RECURSIVE CommaList(_)
CommaList(items) ==
  IF Len(items) = 0 THEN << >>
  ELSE IF Len(items) = 1 THEN items[1]
  ELSE items[1] \o << ",", " " >> \o CommaList(Tail(items))

\* C15: the displayed suggestions are those of the OK response handled
\* last, and nothing else: the summary text, the wins list, the skills
\* text and the hint (the cover letter text) are that response's, a box is
\* displayed exactly when its suggestion is not empty, and before the first
\* OK response everything is empty and hidden.  Responses are handled in
\* any order, whatever request they answer.
C15_DisplaysAreLastResponse ==
  /\ ~lastOk.set =>
       /\ Displays = << << >>, FALSE, << >>, FALSE, << >>, FALSE, << >>,
                        << >>, FALSE >>
  /\ (lastOk.set /\ page = "resume") =>
       /\ sugSummaryText = TextOf(lastOk.data.polished_summary)
       /\ sugSummaryBox = (sugSummaryText # << >>)
       /\ sugWinsList = ListOf(lastOk.data.bullets)
       /\ sugWinsBox = (sugWinsList # << >>)
       /\ sugSkillsText = CommaList(ListOf(lastOk.data.skills_suggested))
       /\ sugSkillsBox = (sugSkillsText # << >>)
       /\ sugHint = IF ListOf(lastOk.data.metric_hints) = << >> THEN << >>
                    ELSE ListOf(lastOk.data.metric_hints)[1]
  /\ (lastOk.set /\ page = "cover") =>
       /\ clSugText = TextOf(lastOk.data.cover_letter_suggested)
       /\ clSugBox = (clSugText # << >>)

\* C15 witness: the wins suggestions of an earlier response were applied to
\* the wins field, and the response handled last brought a summary and no
\* wins: the wins list is empty and hidden, the summary is displayed, and
\* a request is still waiting.
C15_Witness ==
  /\ page = "resume"
  /\ lastOk.set
  /\ winsEl # << >>
  /\ sugWinsList = << >> /\ ~sugWinsBox
  /\ sugSummaryText = SummaryB /\ sugSummaryBox
  /\ polishInFlight >= 1

\* C16: an auto-apply timer that runs and writes the summary field (the
\* cover letter field) writes the suggestion displayed at that moment in
\* the summary suggestion box (the cover letter suggestion box); so after
\* an OK response with an empty suggestion no older suggestion is written.
C16_AutoApplyWritesDisplayed ==
  [][ /\ (AutoTimerRan("resumeAuto") /\ summaryEl' # summaryEl) =>
           (sugSummaryBox /\ summaryEl' = sugSummaryText)
      /\ (AutoTimerRan("clAuto") /\ clLetter' # clLetter) =>
           (clSugBox /\ clLetter' = clSugText) ]_vars

\* The items of a list, one per line.
RECURSIVE OnePerLine(_)
OnePerLine(items) ==
  IF Len(items) = 0 THEN << >>
  ELSE IF Len(items) = 1 THEN items[1]
  ELSE items[1] \o << "\n" >> \o OnePerLine(Tail(items))

\* C17: a displayed suggestion box has its Apply handler set, and a click
\* on an Apply button writes into its field the suggestion displayed at
\* that moment (the wins list one item per line) and issues one polish
\* request at once, setting no timer, whatever the order the responses
\* came in.
C17_ApplyWritesDisplayed ==
  /\ []( /\ sugSummaryBox => sugSummaryApply.set
         /\ sugWinsBox => sugWinsApply.set
         /\ sugSkillsBox => sugSkillsApply.set
         /\ clSugBox => clSugApply.set )
  /\ [][ /\ SugSummaryApplyClick =>
              /\ summaryEl' = sugSummaryText
              /\ polishInFlight' = polishInFlight + 1
              /\ timers' = timers
         /\ SugWinsApplyClick =>
              /\ winsEl' = OnePerLine(sugWinsList)
              /\ polishInFlight' = polishInFlight + 1
              /\ timers' = timers
         /\ SugSkillsApplyClick =>
              /\ skillsEl' = sugSkillsText
              /\ polishInFlight' = polishInFlight + 1
              /\ timers' = timers
         /\ ClSugApplyClick =>
              /\ clLetter' = clSugText
              /\ coverInFlight' = coverInFlight + 1
              /\ timers' = timers ]_vars

\* C17 witness: the wins and skills suggestions of one response were
\* applied, a later response replaced the suggestions, and its summary was
\* applied while an auto-apply timer was pending.
C17_Witness ==
  /\ page = "resume"
  /\ winsEl = OnePerLine(Wins2)
  /\ skillsEl # << >>
  /\ summaryEl = SummaryB /\ sugSummaryText = SummaryB
  /\ sugWinsList = << >>
  /\ Pending("resumeAuto") = 1
  /\ polishInFlight >= 1

\* The serialization of the cards cs: an entry for each card with content,
\* in card order, with the card's title, company, location and dates and,
\* as bullets, the first 8 lines of its bullets text; at most 6 entries.
SerializationOf(cs) ==
  LET cc == SelectSeq(cs, HasContent)
  IN FirstN([k \in 1..Len(cc) |->
               [title |-> cc[k].title, company |-> cc[k].company,
                location |-> cc[k].location, dates |-> cc[k].dates,
                bullets |-> FirstN(BulletLines(cc[k].bullets), 8)]], 6)

\* C18: the jobs field is the serialization of the job cards in every state
\* the page is left in by a handler: after a card is added, after a card is
\* removed, after an input event on a card's field, and when the form is
\* submitted.  The handlers of add, remove and card input issue or schedule
\* their polish request in the same run, after syncJobsJson, so the field is
\* rewritten by the time the request is issued or scheduled.
C18_JobsFieldFollowsCards == jobsJsonField = SerializationOf(cards)

\* C18 witness: with a card of content added and edited after another was
\* added, a debounced request is scheduled and an immediate one is
\* waiting, and the field holds the entry of the edited card.
C18_Witness ==
  /\ Len(cards) = 2
  /\ Pending("resumePolish") = 1
  /\ polishInFlight >= 1
  /\ Len(jobsJsonField) = 1
  /\ jobsJsonField[1].bullets = << LedTeam, GrewRevenue >>
  /\ \E i \in 1..2 : cards[i].script /\ cards[i].bullets = ExampleBullets

====
